---------------------------- MODULE Spec2Model ----------------------------
(***************************************************************************)
(* Model of the lookalike-domain pipeline: tools/url_extractor.py          *)
(* (main, read_keywords_map, process_domain, merge_rows, write_csv,        *)
(* classify_platform, get_cname_chain, collect_certstream),                *)
(* tools/life_check.py (main, process_file) and read_domains of            *)
(* tools/content_extractor.py.                                             *)
(*                                                                         *)
(* A dict is a function whose DOMAIN is its key set; a CSV file is the     *)
(* sequence of its lines, each line the sequence of its cells.             *)
(***************************************************************************)
EXTENDS Naturals, Sequences, FiniteSets, TLC

(***************************************************************************)
(* Bounds of the model.                                                    *)
(***************************************************************************)
MaxRuns == 2            \* process_domain runs with fresh results, per seed
MaxEngineRows == 2      \* records the candidate engine returns in one run
MaxFusion == 1          \* domains all fusion sources return together in one run
MaxPerSource == 1       \* domains one fusion source returns in one run
MaxMergeRows == 2       \* records of a dataset drawn for merge_rows
MaxBatch == 3           \* domains in one input batch of process_file
MaxLifeRuns == 2        \* runs of process_file on one cache file
MaxTasks == 2           \* whitelist rows, or input files, of one run of main
MaxLines == 2           \* records in a file a writer task writes
MaxWriteRuns == 2       \* runs of main over the same output directory
MaxPool == 2            \* calls submitted to one worker pool
MaxCtNames == 2         \* names the CT keyword search returns in one run
MaxExtra == 2           \* words of files/keywords.txt
MaxSeeds == 2           \* seeds of the whitelist, or input files, of one run of main
MaxLimit == 3           \* the largest `limit` collect_certstream is called with
MaxMsgDomains == 3      \* domains one certificate_update message carries

(***************************************************************************)
(* The state.                                                              *)
(***************************************************************************)
\* process_domain for one seed
VARIABLES
    file,        \* the seed's dataset file sus/example.com.csv
    pc,          \* "idle" | "resolving": where process_domain stands
    inp,         \* what the engine, the sources and the resolver answer in this run
    classified,  \* the list `classified` of (domain, platform) pairs
    pending,     \* no_class domains whose get_cname_chain future is not consumed yet
    cnameCalls,  \* domains get_cname_chain was submitted for in this run
    runs,        \* runs started with fresh results
    rerun,       \* the last run repeated the run before it, same results
    before,      \* the dataset file as the last run found it
    ret          \* what the last run returned: added, total, and whether it wrote

xvars == <<file, pc, inp, classified, pending, cnameCalls, runs, rerun, before, ret>>

\* merge_rows on drawn tables
VARIABLES
    m1,      \* (h1, rows1): a dataset as read_existing_csv returns it
    m2,      \* (h2, rows2): an incoming result as process_domain builds it
    mres,    \* what merge_rows returned
    madded,  \* the added count process_domain computes for that merge
    mpc      \* "drawn" | "merged" | "self"

mvars == <<m1, m2, mres, madded, mpc>>

\* process_file for one input batch
VARIABLES
    lfile,        \* the liveness file sus1/example.com.csv
    lpc,          \* "idle" | "dns" | "whois" | "rows" | "done"
    batch,        \* `domains`: what read_domains returned for the input file
    cache,        \* `cache`: what read_existing returned at the start of the run
    dnsPending,   \* resolve futures not consumed yet
    whoisPending, \* whois_task futures not consumed yet
    resolvable,   \* the dict `resolvable`
    registered,   \* the dict `registered`
    dnsCalls,     \* domains passed to resolve in this run
    whoisCalls,   \* domains passed to whois_registered in this run
    whoisAnswer,  \* what whois.whois did for each domain looked up in this run
    lruns         \* runs of process_file so far

lvars == <<lfile, lpc, batch, cache, dnsPending, whoisPending, resolvable, registered,
           dnsCalls, whoisCalls, whoisAnswer, lruns>>

\* the writer tasks of one run of main
VARIABLES
    prog,      \* the program whose main runs: "url_extractor" | "life_check"
    keys,      \* one task per entry: the seed domains, or the input file names
    fs,        \* the file system: path -> file
    tpc,       \* per task: "wait" | "writing" | "done"
    tnew,      \* per task: the lines it is writing
    told,      \* per task: the file its final path held when it started
    twritten,  \* per task: lines written so far
    wrun       \* runs of main so far

wvars == <<prog, keys, fs, tpc, tnew, told, twritten, wrun>>

\* the external calls of the two programs
VARIABLES
    xstage,   \* url_extractor: "engine" | "ct" | "cname" | "done"
    lstage,   \* life_check: "dns" | "whois" | "done"
    cstate    \* per call: "unissued" | "waiting" | "answered" | "timedout"

cvars == <<xstage, lstage, cstate>>

\* the scheduler of main: the pool of seed (or file) tasks and the progress output
VARIABLES
    rprog,     \* the program whose main runs: "url_extractor" | "life_check"
    rtotal,    \* `total`: the number of seeds, or of input files
    rworkers,  \* max_workers of the outer pool
    rfut,      \* per future: "queued" | "running" | "returned" | "raised"
    rseen,     \* the futures as_completed has yielded
    rdone,     \* done_count / done
    rlines,    \* the per-domain summary lines printed, each with its [n/total] n
    rstop,     \* the Event `stop`
    rth,       \* the status thread: "none" | "running" | "ended"
    rframe,    \* the spinner index i of the status thread
    rfinal,    \* the final "done ..." line is printed
    rinput,    \* the required input is there: files/white_list.xlsx, or the directory sus/
    routdir,   \* the output directory is there
    rexit,     \* the status sys.exit was called with, "none" when it was not called
    rpc        \* main: "off" | "check" | "start" | "loop" | "join" | "end" | "crashed" |
               \* "returned" | "exited"

rvars == <<rprog, rtotal, rworkers, rfut, rseen, rdone, rlines, rstop, rth, rframe, rfinal,
           rinput, routdir, rexit, rpc>>

\* the dictionary of one seed
VARIABLES
    drow,     \* the whitelist row: the domain cell and the organisation cell
    dextra,   \* what read_extra_keywords returned for files/keywords.txt
    dkws,     \* kw_map[dom]: the keywords handed to the fusion sources
    ddict,    \* dict_map[dom]: the dict_words handed to the candidate engine
    dpc       \* "off" | "read" | "mapped" | "built"

dvars == <<drow, dextra, dkws, ddict, dpc>>

\* collect_certstream for one seed
VARIABLES
    cslimit,   \* `limit`: the maximum retained count
    csacc,     \* the list `acc`
    cspc       \* "off" | "disabled" | "listening" | "returned"

svars == <<cslimit, csacc, cspc>>

\* one call of get_cname_chain
VARIABLES
    gdns,      \* the CNAME records the resolver sees: name -> target
    gname,     \* the argument `name`
    gfailed,   \* the resolver could not be made, or failed on a name that has a record
    gtarget,   \* `target`
    gseen,     \* `seen`
    gout,      \* `out`
    ghops,     \* iterations of the loop begun so far
    gasked,    \* the names resolver.resolve was called on, in call order
    gpc        \* "off" | "loop" | "returned"

gvars == <<gdns, gname, gfailed, gtarget, gseen, gout, ghops, gasked, gpc>>

\* one static call of classify_platform
VARIABLES
    pcand,     \* the argument `domain`
    ptag,      \* what classify_platform(domain, None) returned
    ppc        \* "off" | "called" | "returned"

pvars == <<pcand, ptag, ppc>>

vars == <<xvars, mvars, lvars, wvars, cvars, rvars, dvars, svars, gvars, pvars>>
notX == <<mvars, lvars, wvars, cvars, rvars, dvars, svars, gvars, pvars>>
notM == <<xvars, lvars, wvars, cvars, rvars, dvars, svars, gvars, pvars>>
notL == <<xvars, mvars, wvars, cvars, rvars, dvars, svars, gvars, pvars>>
notW == <<xvars, mvars, lvars, cvars, rvars, dvars, svars, gvars, pvars>>
notC == <<xvars, mvars, lvars, wvars, rvars, dvars, svars, gvars, pvars>>
notR == <<xvars, mvars, lvars, wvars, cvars, dvars, svars, gvars, pvars>>
notD == <<xvars, mvars, lvars, wvars, cvars, rvars, svars, gvars, pvars>>
notS == <<xvars, mvars, lvars, wvars, cvars, rvars, dvars, gvars, pvars>>
notG == <<xvars, mvars, lvars, wvars, cvars, rvars, dvars, svars, pvars>>
notP == <<xvars, mvars, lvars, wvars, cvars, rvars, dvars, svars, gvars>>

(***************************************************************************)
(* Strings.                                                                *)
(***************************************************************************)
EndsWith(s, t) ==
    /\ Len(s) >= Len(t)
    /\ SubSeq(s, Len(s) - Len(t) + 1, Len(s)) = t

Contains(s, t) ==
    \E i \in 1..(Len(s) + 1) :
        /\ i + Len(t) - 1 <= Len(s)
        /\ SubSeq(s, i, i + Len(t) - 1) = t

Range(s) == { s[i] : i \in 1..Len(s) }

Capitals == "ABCDEFGHIJKLMNOPQRSTUVWXYZ"
Letters == "abcdefghijklmnopqrstuvwxyz"

\* str.lower(), character by character
LowerChar(c) ==
    IF \E i \in 1..Len(Capitals) : SubSeq(Capitals, i, i) = c
    THEN LET i == CHOOSE i \in 1..Len(Capitals) : SubSeq(Capitals, i, i) = c
         IN SubSeq(Letters, i, i)
    ELSE c

RECURSIVE Lower(_)
Lower(str) == IF str = "" THEN "" ELSE LowerChar(SubSeq(str, 1, 1)) \o Lower(SubSeq(str, 2, Len(str)))

\* dict assignment d[k] = v
Put(f, k, v) == [x \in (DOMAIN f) \cup {k} |-> IF x = k THEN v ELSE f[x]]

\* "for x in xs: if x not in seen: seen.add(x); out.append(x)"
RECURSIVE Dedupe(_, _)
Dedupe(xs, acc) ==
    IF xs = <<>> THEN acc
    ELSE Dedupe(Tail(xs), IF Head(xs) \in Range(acc) THEN acc ELSE Append(acc, Head(xs)))

(***************************************************************************)
(* The domains of the model, and the DNS world.                            *)
(***************************************************************************)
D1 == "examp1e.com"
D2 == "examplle.com"
D3 == "foo.vercel.app"
Domains == {D1, D2, D3}

\* Python's None (a key column that does not exist, an absent platform tag)
None == "<None>"

PLATFORM_BASES ==
    << <<"ngrok", "ngrok.io">>, <<"vercel", "vercel.app">>, <<"netlify", "netlify.app">>,
       <<"pages", "pages.dev">>, <<"github", "github.io">>, <<"gitlab", "gitlab.io">>,
       <<"rtdocs", "readthedocs.io">>, <<"azurestatic", "azurestaticapps.net">>,
       <<"azureweb", "azurewebsites.net">>, <<"azureblob", "web.core.windows.net">>,
       <<"appspot", "appspot.com">>, <<"firebase", "firebaseapp.com">>,
       <<"webapp", "web.app">>, <<"googleusercontent", "googleusercontent.com">>,
       <<"googlesites", "sites.google.com">>, <<"heroku", "herokuapp.com">>,
       <<"render", "onrender.com">>, <<"fly", "fly.dev">>, <<"railway", "railway.app">>,
       <<"glitch", "glitch.me">>, <<"cloudfront", "cloudfront.net">>,
       <<"fastly", "fastly.net">>, <<"surge", "surge.sh">>, <<"h000", "000webhostapp.com">>,
       <<"wix", "wixsite.com">>, <<"weebly", "weebly.com">>,
       <<"godaddy", "godaddysites.com">>, <<"squarespace", "squarespace.com">>,
       <<"notion", "notion.site">>, <<"substack", "substack.com">> >>

PLATFORM_CNAME_MARKERS ==
    << <<"vercel", <<"vercel-dns.com">> >>,
       <<"netlify", <<"netlify.app", "netlifyglobalcdn.com">> >>,
       <<"heroku", <<"herokudns.com">> >>,
       <<"google", <<"ghs.googlehosted.com", "googlehosted.com">> >>,
       <<"cloudfront", <<"cloudfront.net">> >>,
       <<"fastly", <<"fastly.net">> >>,
       <<"pages", <<"pages.dev">> >>,
       <<"github", <<"github.io">> >>,
       <<"render", <<"render.com">> >>,
       <<"fly", <<"fly.dev">> >>,
       <<"azurestatic", <<"azurestaticapps.net", "azureedge.net">> >>,
       <<"azureweb", <<"azurewebsites.net">> >> >>

\* ",".join(chain)
RECURSIVE Join(_)
Join(chain) ==
    IF chain = <<>> THEN ""
    ELSE IF Len(chain) = 1 THEN chain[1]
    ELSE chain[1] \o "," \o Join(Tail(chain))

\* the first table entry (in table order) whose base matches, or None
StaticMatch(dl) ==
    LET hits == { i \in 1..Len(PLATFORM_BASES) :
                    \/ EndsWith(dl, "." \o PLATFORM_BASES[i][2])
                    \/ dl = PLATFORM_BASES[i][2]
                    \/ EndsWith(dl, PLATFORM_BASES[i][2]) }
    IN IF hits = {} THEN None
       ELSE PLATFORM_BASES[CHOOSE i \in hits : \A j \in hits : i <= j][1]

MarkerMatch(chain) ==
    LET joined == Join(chain)
        hits == { i \in 1..Len(PLATFORM_CNAME_MARKERS) :
                    \E j \in 1..Len(PLATFORM_CNAME_MARKERS[i][2]) :
                        Contains(joined, PLATFORM_CNAME_MARKERS[i][2][j]) }
    IN IF hits = {} THEN None
       ELSE PLATFORM_CNAME_MARKERS[CHOOSE i \in hits : \A j \in hits : i <= j][1]

\* classify_platform(domain, cname_chain); the domains of the model are lowercase
classify_platform(domain, chain) ==
    IF StaticMatch(domain) # None THEN StaticMatch(domain)
    ELSE IF chain # <<>> THEN MarkerMatch(chain)
    ELSE None

\* The CNAME records a resolver can see: name -> target.
NoDns == [n \in {} |-> ""]
VercelDns == [n \in {D2} |-> "cname.vercel-dns.com"]
DnsWorlds == {NoDns, VercelDns}
\* two names with a CNAME each, on two platforms
BothDns == [n \in {D1, D2} |-> IF n = D1 THEN "examp1e.herokudns.com" ELSE "cname.vercel-dns.com"]
CnameWorlds == {NoDns, VercelDns, BothDns}

\* str.rstrip('.')
RECURSIVE RStripDot(_)
RStripDot(str) ==
    IF str # "" /\ SubSeq(str, Len(str), Len(str)) = "."
    THEN RStripDot(SubSeq(str, 1, Len(str) - 1)) ELSE str

\* the test of line 215 left out: no name counts as seen
SeenBefore_Never(target, seen) == FALSE

\* line 215: if target in seen
SeenBefore(target, seen) == target \in seen

\* get_cname_chain: at most 5 hops, stops on a failed resolution or a seen name
RECURSIVE CnameLoop(_, _, _, _, _)
CnameLoop(dns, target, seen, out, hops) ==
    IF hops = 0 \/ SeenBefore(target, seen) \/ target \notin DOMAIN dns THEN out
    ELSE CnameLoop(dns, RStripDot(dns[target]), seen \cup {target},
                   Append(out, RStripDot(dns[target])), hops - 1)

MaxHops == 5
get_cname_chain(dns, name) == CnameLoop(dns, name, {}, <<>>, MaxHops)


(***************************************************************************)
(* CSV files and the merge.                                                *)
(***************************************************************************)
\* a path with no file, and a file with its lines (the first is the header)
Absent == [exists |-> FALSE, lines |-> <<>>]
FileOf(ls) == [exists |-> TRUE, lines |-> ls]

\* r.get(k, "")
GetOr(r, k) == IF k \in DOMAIN r THEN r[k] ELSE ""

\* the lines write_csv writes: the header, then each row's cells in header order
CsvLines(header, rows) ==
    <<header>> \o [i \in 1..Len(rows) |-> [j \in 1..Len(header) |-> GetOr(rows[i], header[j])]]

\* read_existing_csv: item[k] = r[i] for every header cell, a later cell of the
\* same name overwriting an earlier one, "" past the end of a short line
read_existing_csv(f) ==
    IF f.lines = <<>> THEN [header |-> <<>>, rows |-> <<>>]
    ELSE LET header == f.lines[1]
             Item(r) == [k \in Range(header) |->
                            LET i == CHOOSE i \in 1..Len(header) :
                                        /\ header[i] = k
                                        /\ \A j \in 1..Len(header) : header[j] = k => j <= i
                            IN IF i <= Len(r) THEN r[i] ELSE ""]
         IN [header |-> header,
             rows |-> [n \in 1..(Len(f.lines) - 1) |-> Item(f.lines[n + 1])]]

\* key_field: the first column named domain or fqdn, else the first column
\* (the column names of the model are stripped and lowercase already)
key_field(header) ==
    LET hits == { i \in 1..Len(header) : header[i] \in {"domain", "fqdn"} }
    IN IF hits # {} THEN header[CHOOSE i \in hits : \A j \in hits : i <= j]
       ELSE IF header # <<>> THEN header[1] ELSE "domain"

KeyOrNone(h) == IF h # <<>> THEN key_field(h) ELSE None

\* the loop over rows1 with the index assignment left out: no key is known
IndexExisting_Forgets(rows1, k1, n, index) == index

\* "index[idx_key] = len(out) - 1" over rows1: the last row of a key wins
RECURSIVE IndexExisting(_, _, _, _)
IndexExisting(rows1, k1, n, index) ==
    IF n > Len(rows1) THEN index
    ELSE IndexExisting(rows1, k1, n + 1,
            IF k1 # None /\ k1 \in DOMAIN rows1[n]
            THEN Put(index, rows1[n][k1], n) ELSE index)

\* "for k in r.keys(): merged[k] = r[k]"
Overlay(old, r) == [k \in (DOMAIN old) \cup (DOMAIN r) |-> IF k \in DOMAIN r THEN r[k] ELSE old[k]]

\* the loop over rows2 with the index lookup left out: every record is appended
MergeIncoming_AppendOnly(out, index, rows2, k2) == out \o rows2

\* the loop over rows2: upsert by key, else append
RECURSIVE MergeIncoming(_, _, _, _)
MergeIncoming(out, index, rows2, k2) ==
    IF rows2 = <<>> THEN out
    ELSE LET r == Head(rows2)
             keyed == k2 # None /\ k2 \in DOMAIN r
         IN IF keyed /\ r[k2] \in DOMAIN index
            THEN MergeIncoming([out EXCEPT ![index[r[k2]]] = Overlay(out[index[r[k2]]], r)],
                               index, Tail(rows2), k2)
            ELSE MergeIncoming(Append(out, r),
                               IF keyed THEN Put(index, r[k2], Len(out) + 1) ELSE index,
                               Tail(rows2), k2)

\* the header taken from the incoming result alone
MergedHeader_IncomingOnly(h1, h2) == h2

\* lines 410-421: the columns of h1, then the columns of h2 not seen yet
MergedHeader(h1, h2) ==
    LET header == Dedupe(h1 \o h2, <<>>)
    IN IF header = <<>> /\ KeyOrNone(h2) # None THEN <<KeyOrNone(h2)>> ELSE header

merge_rows(h1, rows1, h2, rows2) ==
    LET header == MergedHeader(h1, h2)
        out == MergeIncoming(rows1, IndexExisting(rows1, KeyOrNone(h1), 1, [x \in {} |-> 0]),
                             rows2, KeyOrNone(h2))
    IN [header |-> header,
        rows |-> [i \in 1..Len(out) |-> [k \in Range(header) |-> GetOr(out[i], k)]]]

(***************************************************************************)
(* What the candidate engine and the fusion sources can return in one run. *)
(***************************************************************************)
SeqsUpTo(S, n) == UNION { [1..m -> S] : m \in 0..n }

IsDupFree(s) == \A i, j \in 1..Len(s) : s[i] = s[j] => i = j

ENGINE_HEADER == <<"domain", "fuzzer">>
FUSION_HEADER == <<"domain", "type", "source">>
EngineDomains == {D1, D2}
Fuzzers == {"bitsquatting"}

\* line 124: subprocess.run raises when the engine cannot be started (no such
\* executable); nothing in run_dnstwist or process_domain catches it
NotStarted == [eh |-> <<>>, er |-> <<>>, started |-> FALSE]

\* run_dnstwist: ([], []) on a non-zero exit or empty output, else the header
\* and one dict per line
EngineResults ==
    {NotStarted, [eh |-> <<>>, er |-> <<>>, started |-> TRUE]} \cup
    { [eh |-> ENGINE_HEADER, er |-> rows, started |-> TRUE] :
        rows \in SeqsUpTo([domain : EngineDomains, fuzzer : Fuzzers], MaxEngineRows) }

Min(a, b) == IF a <= b THEN a ELSE b

\* the sequences one source can return when the sources before it returned `used`
Hits(S, used) == SeqsUpTo(S, Min(MaxPerSource, MaxFusion - used))

\* fetch_platform_kw keeps only names that end with a platform base
PlatformHits(used) == Hits({ d \in Domains : StaticMatch(d) # None }, used)
\* fetch_ct_keyword (per keyword) and collect_certstream: any names, repeats possible
KeywordHits(used) == Hits(Domains, used)
\* collect_from_zonefiles: no name twice
ZoneHits(used) == { s \in Hits(Domains, used) : IsDupFree(s) }
\* collect_from_sonar: (name, src), no name twice; src is a platform only for a
\* line kept for its CNAME-marker value
SonarHits(used) ==
    { s \in Hits(Domains \X {None, "vercel"}, used) :
        IsDupFree([i \in 1..Len(s) |-> s[i][1]]) }

Names(sonar) == [i \in 1..Len(sonar) |-> sonar[i][1]]

\* lines 510-515: the candidate sequence, first seen first
Candidates(fu) == Dedupe(fu.results \o fu.gen \o fu.cs \o fu.z \o Names(fu.sonar), <<>>)

\* lines 516-523: the static pass
StaticClassified(cands) ==
    LET hit(d) == StaticMatch(d) # None
        c == SelectSeq(cands, hit)
    IN [i \in 1..Len(c) |-> <<c[i], classify_platform(c[i], <<>>)>>]

\* the static pass sending every candidate on to the CNAME fan-out
NoClass_All(cands) == cands

NoClass(cands) ==
    LET miss(d) == StaticMatch(d) = None
    IN SelectSeq(cands, miss)

\* lines 536-545: the fusion records, in the order the code appends them
CtRows(fu, pairs) ==
    LET labelled(p) == p[2] # None
        sl == SelectSeq(fu.sonar, labelled)
        cl == pairs \o sl
    IN [i \in 1..Len(fu.z) |-> [domain |-> fu.z[i], type |-> "nrd", source |-> "czds"]]
       \o [i \in 1..Len(fu.sonar) |->
              [domain |-> fu.sonar[i][1], type |-> "pdns",
               source |-> IF fu.sonar[i][2] # None THEN fu.sonar[i][2] ELSE "sonar"]]
       \o [i \in 1..Len(cl) |-> [domain |-> cl[i][1], type |-> "ct_log", source |-> cl[i][2]]]

\* lines 546-553: h2 and r2 after the fusion records are added
IncomingHeader(eh, ct) ==
    IF ct = <<>> THEN eh
    ELSE LET h == IF eh = <<>> THEN FUSION_HEADER ELSE eh
             missing(c) == c \notin Range(h)
         IN h \o SelectSeq(FUSION_HEADER, missing)

IncomingRows(er, ct) == er \o ct

\* lines 559-572: incoming records whose key is not a key of the existing file
AddedCount(h1, r1, h2, r2) ==
    LET k1 == KeyOrNone(h1)
        k2 == KeyOrNone(h2)
        existing == IF k1 = None THEN {}
                    ELSE { r1[i][k1] : i \in { j \in 1..Len(r1) : k1 \in DOMAIN r1[j] } }
    IN IF k2 = None THEN 0
       ELSE Cardinality({ i \in 1..Len(r2) : k2 \in DOMAIN r2[i] /\ r2[i][k2] \notin existing })

\* lines 554-578: what process_domain leaves on disk and returns
Persisted(f, h2, r2) ==
    IF h2 = <<>> /\ r2 = <<>> THEN [file |-> f, added |-> 0, total |-> 0, wrote |-> FALSE]
    ELSE IF f.exists
    THEN LET old == read_existing_csv(f)
             m == merge_rows(old.header, old.rows, h2, r2)
         IN [file |-> FileOf(CsvLines(m.header, m.rows)),
             added |-> AddedCount(old.header, old.rows, h2, r2),
             total |-> Len(m.rows), wrote |-> TRUE]
    ELSE [file |-> FileOf(CsvLines(h2, r2)), added |-> Len(r2), total |-> Len(r2), wrote |-> TRUE]

(***************************************************************************)
(* process_domain for one seed (example.com): the state machine.           *)
(***************************************************************************)
NoFusion == [results |-> <<>>, gen |-> <<>>, cs |-> <<>>, z |-> <<>>, sonar |-> <<>>]
NoInput == [engine |-> [eh |-> <<>>, er |-> <<>>, started |-> TRUE],
            fusion |-> NoFusion, dns |-> NoDns]

InitX ==
    /\ file = Absent
    /\ pc = "idle"
    /\ inp = NoInput
    /\ classified = <<>>
    /\ pending = {}
    /\ cnameCalls = {}
    /\ runs = 0
    /\ rerun = FALSE
    /\ before = Absent
    /\ ret = [added |-> 0, total |-> 0, wrote |-> FALSE]

\* lines 462-526: the engine, the sources, the static pass, the CNAME fan-out;
\* when line 462 raises, process_domain ends there and main (lines 659-660)
\* takes added and total as 0
Begin(i) ==
    /\ inp' = i
    /\ before' = file
    /\ UNCHANGED file
    /\ IF i.engine.started
       THEN /\ classified' = StaticClassified(Candidates(i.fusion))
            /\ pending' = Range(NoClass(Candidates(i.fusion)))
            /\ cnameCalls' = Range(NoClass(Candidates(i.fusion)))
            /\ pc' = "resolving"
            /\ UNCHANGED ret
       ELSE /\ classified' = <<>>
            /\ pending' = {}
            /\ cnameCalls' = {}
            /\ pc' = "done"
            /\ ret' = [added |-> 0, total |-> 0, wrote |-> FALSE]

Collect ==
    /\ pc = "idle"
    /\ runs < MaxRuns
    /\ \E e \in EngineResults, a \in PlatformHits(0) :
       \E b \in KeywordHits(Len(a)) :
       \E c \in KeywordHits(Len(a) + Len(b)) :
       \E d \in ZoneHits(Len(a) + Len(b) + Len(c)) :
       \E s \in SonarHits(Len(a) + Len(b) + Len(c) + Len(d)) :
       \E dns \in DnsWorlds :
        LET fu == [results |-> a, gen |-> b, cs |-> c, z |-> d, sonar |-> s]
        IN /\ dns = NoDns \/ (DOMAIN dns) \cap Range(NoClass(Candidates(fu))) # {}
           /\ Begin([engine |-> e, fusion |-> fu, dns |-> dns])
    /\ runs' = runs + 1
    /\ rerun' = FALSE
    /\ UNCHANGED notX

\* a run in which the engine exits non-zero and only the CT keyword search
\* returns names, several of them
CollectCt ==
    /\ pc = "idle"
    /\ runs < MaxRuns
    /\ \E b \in SeqsUpTo(Domains, MaxCtNames), dns \in CnameWorlds :
        /\ dns = NoDns \/ (DOMAIN dns) \subseteq Range(b)
        /\ Begin([engine |-> NoInput.engine, fusion |-> [NoFusion EXCEPT !.gen = b], dns |-> dns])
    /\ runs' = runs + 1
    /\ rerun' = FALSE
    /\ UNCHANGED notX

\* run_dnstwist lines 132-144: the engine's CSV is taken as printed: its key
\* column is named domain or fqdn, and a cell is whatever the line holds, ""
\* for a cell past the end of a short line; no cell is stripped or lowercased
RawKeyCells == {D1, "EXAMP1E.COM", ""}
RawEngineResults ==
    {NoInput.engine} \cup
    { [eh |-> <<"domain", "fuzzer">>, er |-> rows, started |-> TRUE] :
        rows \in SeqsUpTo([domain : RawKeyCells, fuzzer : Fuzzers], MaxEngineRows) } \cup
    { [eh |-> <<"fqdn", "fuzzer">>, er |-> rows, started |-> TRUE] :
        rows \in SeqsUpTo([fqdn : RawKeyCells, fuzzer : Fuzzers], MaxEngineRows) }

\* a run on any engine output, the zone files being the one source with hits
CollectRaw ==
    /\ pc = "idle"
    /\ runs < MaxRuns
    /\ \E e \in RawEngineResults, z \in ZoneHits(0) :
        Begin([engine |-> e, fusion |-> [NoFusion EXCEPT !.z = z], dns |-> NoDns])
    /\ runs' = runs + 1
    /\ rerun' = FALSE
    /\ UNCHANGED notX

\* the seed is processed again, the engine and every source answering as before
Rerun ==
    /\ pc = "done"
    /\ ~rerun
    /\ Begin(inp)
    /\ rerun' = TRUE
    /\ UNCHANGED runs
    /\ UNCHANGED notX

\* lines 527-535: one CNAME future completes (as_completed: in any order)
CnameDone ==
    /\ pc = "resolving"
    /\ \E d \in pending :
        LET src == classify_platform(d, get_cname_chain(inp.dns, d))
        IN /\ pending' = pending \ {d}
           /\ classified' = IF src # None THEN Append(classified, <<d, src>>) ELSE classified
    /\ UNCHANGED <<file, pc, inp, cnameCalls, runs, rerun, before, ret>>
    /\ UNCHANGED notX

\* lines 536-578: the fusion records, the merge, the write, the return
Persist ==
    /\ pc = "resolving"
    /\ pending = {}
    /\ LET ct == CtRows(inp.fusion, classified)
           res == Persisted(file, IncomingHeader(inp.engine.eh, ct), IncomingRows(inp.engine.er, ct))
       IN /\ file' = res.file
          /\ ret' = [added |-> res.added, total |-> res.total, wrote |-> res.wrote]
    /\ pc' = "done"
    /\ UNCHANGED <<inp, classified, pending, cnameCalls, runs, rerun, before>>
    /\ UNCHANGED notX

\* the process ends: of this run only the dataset file is left
Exit ==
    /\ pc = "done"
    /\ pc' = "idle"
    /\ inp' = NoInput
    /\ classified' = <<>>
    /\ cnameCalls' = {}
    /\ rerun' = FALSE
    /\ before' = Absent
    /\ ret' = [added |-> 0, total |-> 0, wrote |-> FALSE]
    /\ UNCHANGED <<file, pending, runs>>
    /\ UNCHANGED notX

(***************************************************************************)
(* Claims about the persisted seed dataset.                                *)
(***************************************************************************)
\* the key column of a dataset file, one value per record
KeyColumn(f) ==
    LET t == read_existing_csv(f)
    IN [i \in 1..Len(t.rows) |-> GetOr(t.rows[i], key_field(t.header))]

RowsOf(f, d) ==
    LET t == read_existing_csv(f)
    IN { i \in 1..Len(t.rows) : GetOr(t.rows[i], key_field(t.header)) = d }

RunCtRows == CtRows(inp.fusion, classified)

\* C1: after any sequence of process_domain runs for one seed, the first run
\* that creates the file included, no two records of the persisted dataset
\* have the same value in the key column.
C1_KeyUniqueness == IsDupFree(KeyColumn(file))

\* C2: when the engine and the fusion layer both produce a record for a domain
\* in one run, the persisted dataset holds exactly one row for it, carrying the
\* engine's column values and the fusion type/source values.
C2_EngineAndFusionShareOneRow ==
    pc = "done" =>
        \A d \in Domains :
            (/\ \E i \in 1..Len(inp.engine.er) : inp.engine.er[i].domain = d
             /\ \E j \in 1..Len(RunCtRows) : RunCtRows[j].domain = d)
            => /\ Cardinality(RowsOf(file, d)) = 1
               /\ \A n \in RowsOf(file, d) :
                    LET row == read_existing_csv(file).rows[n]
                    IN /\ \E i \in 1..Len(inp.engine.er) :
                            /\ inp.engine.er[i].domain = d
                            /\ GetOr(row, "fuzzer") = inp.engine.er[i].fuzzer
                       /\ \E j \in 1..Len(RunCtRows) :
                            /\ RunCtRows[j].domain = d
                            /\ GetOr(row, "type") = RunCtRows[j].type
                            /\ GetOr(row, "source") = RunCtRows[j].source

\* C3: a second run for the same seed with the same engine and source results
\* leaves the dataset file identical and reports added = 0.
C3_RerunIdempotent ==
    (pc = "done" /\ rerun) => (file = before /\ ret.added = 0)

\* C6: every domain of the deduplicated fusion candidate sequence of a run is a
\* record of the dataset persisted by that run, classified or not.
C6_CandidatesRetained ==
    pc = "done" =>
        \A d \in Range(Candidates(inp.fusion)) : file.exists /\ RowsOf(file, d) # {}

\* C10: a seed whose engine and every source return nothing still leaves a
\* dataset file on disk, and the run reports added 0.
C10_EmptyRunLeavesDataset ==
    (pc = "done" /\ inp.engine = NoInput.engine /\ inp.fusion = NoFusion)
        => (file.exists /\ ret.added = 0)

\* the fusion records of a run that need no CNAME answer: the zone-file and
\* passive-DNS hits and the statically matched candidates
StaticCtRows == CtRows(inp.fusion, StaticClassified(Candidates(inp.fusion)))

\* C11: when the candidate engine fails in any way (non-zero exit, empty
\* output, or the subprocess not starting) it contributes nothing, and the
\* fusion records of the seed are still persisted in the same run.
C11_EngineFailureIsSoft ==
    (pc = "done" /\ inp.engine.eh = <<>> /\ inp.engine.er = <<>>)
        => \A i \in 1..Len(StaticCtRows) :
            /\ file.exists
            /\ RowsOf(file, StaticCtRows[i].domain) # {}

\* C14: the pair (added, total) process_domain returns is exact: added is the
\* number of distinct keys in the persisted dataset after the run that were
\* not in it before, total the number of records persisted after the run.
C14_CountsAreExact ==
    (pc = "done" /\ inp.engine.started) =>
        /\ ret.added = Cardinality(Range(KeyColumn(file)) \ Range(KeyColumn(before)))
        /\ ret.total = Len(KeyColumn(file))

\* the header line of a dataset file
HeaderOf(f) == read_existing_csv(f).header

\* position of column c in header h
ColumnIndex(h, c) == CHOOSE i \in 1..Len(h) : h[i] = c

\* C15: the header of the persisted dataset never loses a column across runs:
\* every column of the header before a run is in the header after it, in the
\* same relative order, and the header has no duplicate column.
C15_HeaderOnlyGrows ==
    /\ IsDupFree(HeaderOf(file))
    /\ pc = "done" =>
        /\ Range(HeaderOf(before)) \subseteq Range(HeaderOf(file))
        /\ \A i, j \in 1..Len(HeaderOf(before)) :
            i < j => ColumnIndex(HeaderOf(file), HeaderOf(before)[i])
                        < ColumnIndex(HeaderOf(file), HeaderOf(before)[j])

\* a run that found a dataset and left it with more columns, its incoming
\* header being another than the one on disk
C15_Witness ==
    /\ pc = "done"
    /\ before.exists
    /\ Len(HeaderOf(file)) > Len(HeaderOf(before))
    /\ HeaderOf(before) # IncomingHeader(inp.engine.eh, RunCtRows)

\* the pairs `classified` holds when the CNAME futures complete in the order
\* they were submitted
InOrderClassified ==
    LET cands == Candidates(inp.fusion)
        tag(d) == classify_platform(d, get_cname_chain(inp.dns, d))
        hit(d) == tag(d) # None
        byCname == SelectSeq(NoClass(cands), hit)
    IN StaticClassified(cands) \o [i \in 1..Len(byCname) |-> <<byCname[i], tag(byCname[i])>>]

\* C16: for fixed results of the engine and of every source, the persisted
\* dataset has the same rows, values and row order under every completion
\* order of the CNAME-resolution tasks: it is the dataset of the run whose
\* tasks complete in submission order.
C16_ArrivalOrderIrrelevant ==
    (pc = "done" /\ inp.engine.started) =>
        LET ct == CtRows(inp.fusion, InOrderClassified)
        IN file = Persisted(before, IncomingHeader(inp.engine.eh, ct),
                            IncomingRows(inp.engine.er, ct)).file

\* the domains of the fusion records of the run, in record order
RunCtDomains == [i \in 1..Len(RunCtRows) |-> RunCtRows[i].domain]

\* C20: the fusion records process_domain hands to the merge hold each domain
\* at most once, in the order in which the domains were first seen across the
\* sources.
C20_FusionRecordsFirstSeen ==
    (pc = "done" /\ inp.engine.started) =>
        LET kept(d) == d \in Range(RunCtDomains)
        IN /\ IsDupFree(RunCtDomains)
           /\ RunCtDomains = SelectSeq(Candidates(inp.fusion), kept)

UpperCase ==
    {"A", "B", "C", "D", "E", "F", "G", "H", "I", "J", "K", "L", "M", "N", "O", "P", "Q",
     "R", "S", "T", "U", "V", "W", "X", "Y", "Z"}

\* s == s.lower()
IsLower(s) == \A i \in 1..Len(s) : SubSeq(s, i, i) \notin UpperCase

\* C21: every record of the persisted dataset has a non-empty, all-lowercase
\* value in its key (domain/fqdn) column, whatever strings the engine and the
\* sources return and whichever key column name the file and the result use.
C21_KeysLowercaseNonEmpty ==
    \A i \in 1..Len(KeyColumn(file)) :
        KeyColumn(file)[i] # "" /\ IsLower(KeyColumn(file)[i])

\* the table entries whose base d equals or is a subdomain of
BaseOf(d) ==
    { i \in 1..Len(PLATFORM_BASES) :
        d = PLATFORM_BASES[i][2] \/ EndsWith(d, "." \o PLATFORM_BASES[i][2]) }

\* C22: a candidate that is a platform base domain or a subdomain of one is
\* tagged with that platform and no CNAME resolution is issued for it; CNAME
\* resolution is issued only for candidates with no such match.
C22_StaticMatchSkipsCname ==
    /\ \A d \in cnameCalls : BaseOf(d) = {} /\ d \in Range(Candidates(inp.fusion))
    /\ (pc \in {"resolving", "done"} /\ inp.engine.started) =>
        \A d \in Range(Candidates(inp.fusion)) : \A i \in BaseOf(d) :
            /\ d \notin cnameCalls
            /\ <<d, PLATFORM_BASES[i][1]>> \in Range(classified)
            /\ pc = "done" =>
                \E j \in 1..Len(RunCtRows) :
                    /\ RunCtRows[j].domain = d
                    /\ RunCtRows[j].type = "ct_log"
                    /\ RunCtRows[j].source = PLATFORM_BASES[i][1]

\* a finished run with a statically matched candidate and another candidate
\* that was resolved and classified by its CNAME chain
C22_Witness ==
    /\ pc = "done"
    /\ \E d \in Range(Candidates(inp.fusion)) : BaseOf(d) # {}
    /\ \E d \in cnameCalls : \E j \in 1..Len(classified) : classified[j][1] = d

\* C26: a passive-DNS candidate that collect_from_sonar returns labelled with
\* a platform is not classified again: no CNAME resolution is issued for it
\* and the fusion records of the run hold exactly one record for it, carrying
\* that platform.
C26_LabelledSonarKept ==
    (pc \in {"resolving", "done"} /\ inp.engine.started) =>
        \A k \in 1..Len(inp.fusion.sonar) :
            inp.fusion.sonar[k][2] # None =>
                /\ inp.fusion.sonar[k][1] \notin cnameCalls
                /\ pc = "done" =>
                    /\ Cardinality({ j \in 1..Len(RunCtRows) :
                                        RunCtRows[j].domain = inp.fusion.sonar[k][1] }) = 1
                    /\ \A j \in 1..Len(RunCtRows) :
                            RunCtRows[j].domain = inp.fusion.sonar[k][1]
                                => RunCtRows[j].source = inp.fusion.sonar[k][2]

(***************************************************************************)
(* merge_rows as a function: tables are drawn, then merged.                *)
(***************************************************************************)
EmptyTable == [header |-> <<>>, rows |-> <<>>]

\* the cells a dataset file can hold in each column
CellValues(col) ==
    IF col = "domain" THEN {D1, D2}
    ELSE IF col = "fuzzer" THEN {"", "homoglyph"}
    ELSE IF col = "type" THEN {"", "pdns"}
    ELSE {"", "sonar"}

\* the dicts read_existing_csv builds under `header`: every column is a key
\* (type and source are written together, by the fusion records only)
FileRecords(header) ==
    { r \in [Range(header) -> UNION { CellValues(c) : c \in Range(header) }] :
        /\ \A c \in Range(header) : r[c] \in CellValues(c)
        /\ {"type", "source"} \subseteq Range(header) => (r["type"] = "" <=> r["source"] = "") }

\* headers process_domain writes: the engine's, the fusion one, their union
DatasetHeaders == {ENGINE_HEADER, FUSION_HEADER, ENGINE_HEADER \o <<"type", "source">>}

ExistingTables ==
    {EmptyTable} \cup
    UNION { { [header |-> h, rows |-> rows] : rows \in SeqsUpTo(FileRecords(h), MaxMergeRows) } :
            h \in DatasetHeaders }

CtRecords ==
    { [domain |-> d, type |-> t[1], source |-> t[2]] :
        d \in {D1, D2}, t \in { <<"nrd", "czds">>, <<"ct_log", "vercel">> } }

IncomingTables ==
    { [header |-> IncomingHeader(e.eh, ct), rows |-> IncomingRows(e.er, ct)] :
        e \in EngineResults, ct \in SeqsUpTo(CtRecords, MaxFusion) }

IdleM ==
    /\ m1 = EmptyTable
    /\ m2 = EmptyTable
    /\ mres = EmptyTable
    /\ madded = 0
    /\ mpc = "off"

InitM ==
    /\ m1 \in ExistingTables
    /\ m2 \in IncomingTables
    /\ mres = EmptyTable
    /\ madded = 0
    /\ mpc = "drawn"

\* lines 558-573 of process_domain: the added count and the merge
Merge ==
    /\ mpc = "drawn"
    /\ mres' = merge_rows(m1.header, m1.rows, m2.header, m2.rows)
    /\ madded' = AddedCount(m1.header, m1.rows, m2.header, m2.rows)
    /\ mpc' = "merged"
    /\ UNCHANGED <<m1, m2>>
    /\ UNCHANGED notM

\* the same, the incoming result being the dataset itself
SelfMerge ==
    /\ mpc = "drawn"
    /\ mres' = merge_rows(m1.header, m1.rows, m1.header, m1.rows)
    /\ madded' = AddedCount(m1.header, m1.rows, m1.header, m1.rows)
    /\ mpc' = "self"
    /\ UNCHANGED <<m1, m2>>
    /\ UNCHANGED notM

\* C4: merging a dataset with itself returns its header and its records, same
\* values, same order, and the added count of that merge is 0.
C4_SelfMergeIsNoOp ==
    mpc = "self" => (mres.header = m1.header /\ mres.rows = m1.rows /\ madded = 0)

\* a self-merge of a dataset in which two records share a key and differ
C4_Witness ==
    /\ mpc = "self"
    /\ \E i, j \in 1..Len(m1.rows) :
        /\ i # j
        /\ m1.rows[i].domain = m1.rows[j].domain
        /\ m1.rows[i] # m1.rows[j]

\* the key column of a table, one value per record
TableKeys(t) == [i \in 1..Len(t.rows) |-> GetOr(t.rows[i], key_field(t.header))]

\* the keys of the incoming records that are keys of no existing record
NewKeys ==
    LET new(k) == k \notin Range(TableKeys(m1))
    IN SelectSeq(TableKeys(m2), new)

\* C13: merge_rows returns the existing records in their original order, then
\* the incoming records whose key is no existing key, each such key once, in
\* incoming order; an incoming record with an existing key adds no record.
C13_ExistingThenNewKeys ==
    mpc = "merged" =>
        /\ TableKeys(mres) = TableKeys(m1) \o Dedupe(NewKeys, <<>>)
        /\ \A i \in 1..Len(m1.rows) : \A c \in Range(m1.header) :
            \/ mres.rows[i][c] = m1.rows[i][c]
            \/ \E j \in 1..Len(m2.rows) :
                /\ TableKeys(m2)[j] = TableKeys(m1)[i]
                /\ c \in DOMAIN m2.rows[j]
                /\ mres.rows[i][c] = m2.rows[j][c]

\* a merge in which one incoming record has an existing key and two others
\* share a key that is new
C13_Witness ==
    /\ mpc = "merged"
    /\ m1.rows # <<>>
    /\ \E j \in 1..Len(m2.rows) : TableKeys(m2)[j] \in Range(TableKeys(m1))
    /\ \E j, k \in 1..Len(NewKeys) : j # k /\ NewKeys[j] = NewKeys[k]

\* C29: a merge changes an existing record only in columns that are new to
\* the header: every existing record has, in every column of the existing
\* header, the value it had before, whatever the same-key incoming record
\* holds in that column.
C29_ExistingValuesKept ==
    mpc = "merged" =>
        \A i \in 1..Len(m1.rows) : \A c \in Range(m1.header) :
            mres.rows[i][c] = m1.rows[i][c]

(***************************************************************************)
(* life_check.process_file for one input batch and its liveness cache.     *)
(***************************************************************************)
LIVENESS_HEADER == <<"domain", "resolvable", "registered">>

\* line 148: "true" if rv else "false"
FormatFlag(b) == IF b THEN "true" ELSE "false"
\* lines 62-63: str(cell).strip().lower() in {"1", "true", "yes"}
ParseFlag(cell) == cell \in {"1", "true", "yes"}

NoDict == [x \in {} |-> FALSE]

\* lines 59-67: a later row of a domain overwrites an earlier one
RECURSIVE CacheRows(_, _, _)
CacheRows(ls, n, out) ==
    IF n > Len(ls) THEN out
    ELSE CacheRows(ls, n + 1,
            IF Len(ls[n]) >= 3 /\ ls[n][1] # ""
            THEN Put(out, ls[n][1], <<ParseFlag(ls[n][2]), ParseFlag(ls[n][3])>>)
            ELSE out)

\* read_existing: {} for a missing or empty file or one without the three
\* columns (the files of the model have them in the order of LIVENESS_HEADER)
read_existing(f) ==
    IF ~f.exists \/ f.lines = <<>> THEN [x \in {} |-> <<FALSE, FALSE>>]
    ELSE IF ~({"domain", "resolvable", "registered"} \subseteq Range(f.lines[1]))
    THEN [x \in {} |-> <<FALSE, FALSE>>]
    ELSE CacheRows(f.lines, 2, [x \in {} |-> <<FALSE, FALSE>>])

\* todo with the cache test left out: every domain of the batch is probed
Todo_IgnoresCache(domains, c) == domains

\* line 109: todo = [d for d in domains if d not in cache]
Todo(domains, c) ==
    LET fresh(d) == d \notin DOMAIN c
    IN SelectSeq(domains, fresh)

\* the rows with the test "if rv or rg" left out: every domain gets a row
LivenessRows_KeepsAll(domains, c, rv, rg) ==
    LET flags(d) == IF d \in DOMAIN c THEN c[d]
                    ELSE << IF d \in DOMAIN rv THEN rv[d] ELSE FALSE,
                            IF d \in DOMAIN rg THEN rg[d] ELSE FALSE >>
    IN [i \in 1..Len(domains) |->
            <<domains[i], FormatFlag(flags(domains[i])[1]), FormatFlag(flags(domains[i])[2])>>]

\* lines 134-142: the rows kept, in batch order
LivenessRows(domains, c, rv, rg) ==
    LET flags(d) == IF d \in DOMAIN c THEN c[d]
                    ELSE << IF d \in DOMAIN rv THEN rv[d] ELSE FALSE,
                            IF d \in DOMAIN rg THEN rg[d] ELSE FALSE >>
        keep(d) == flags(d)[1] \/ flags(d)[2]
        kept == SelectSeq(domains, keep)
    IN [i \in 1..Len(kept) |-> <<kept[i], FormatFlag(flags(kept[i])[1]), FormatFlag(flags(kept[i])[2])>>]

\* the batches read_domains can return: no domain twice
Batches == { b \in SeqsUpTo(Domains, MaxBatch) : IsDupFree(b) }

\* whois.whois(dn): it raises, returns None, or returns an entry of which
\* some fields (`present`) are non-empty
WhoisRaised == [kind |-> "raised", present |-> {}]
WhoisNone == [kind |-> "none", present |-> {}]
WhoisEntry(S) == [kind |-> "entry", present |-> S]
WhoisAnswers ==
    {WhoisRaised, WhoisNone} \cup
    { WhoisEntry(S) : S \in {{}, {"domain_name"}, {"registrar"}, {"creation_date", "name_servers"}} }

\* lines 91-98: the fields whois_registered looks at
CheckedFields ==
    {"domain_name", "registrar", "creation_date", "updated_date", "expiration_date", "name_servers"}

\* whois_registered, lines 84-104
whois_registered(ans) ==
    IF ans.kind # "entry" THEN FALSE
    ELSE ans.present \cap CheckedFields # {}

NoAnswers == [x \in {} |-> WhoisNone]

\* the liveness files a first run can find: none, or one holding a row with
\* both flags false
CacheFiles == {Absent, FileOf(<<LIVENESS_HEADER, <<D1, "false", "false">>>>)}

IdleL ==
    /\ lpc = "idle"
    /\ batch = <<>>
    /\ cache = [x \in {} |-> <<FALSE, FALSE>>]
    /\ dnsPending = {}
    /\ whoisPending = {}
    /\ resolvable = NoDict
    /\ registered = NoDict
    /\ dnsCalls = {}
    /\ whoisCalls = {}
    /\ whoisAnswer = NoAnswers
    /\ lruns = 0

InitL ==
    /\ lfile = Absent
    /\ IdleL

InitLCache ==
    /\ lfile \in CacheFiles
    /\ IdleL

\* lines 107-114: read the batch and the cache, submit resolve for todo
StartFile ==
    /\ lpc = "idle"
    /\ lruns < MaxLifeRuns
    /\ \E b \in Batches :
        /\ batch' = b
        /\ cache' = read_existing(lfile)
        /\ dnsPending' = Range(Todo(b, read_existing(lfile)))
        /\ dnsCalls' = Range(Todo(b, read_existing(lfile)))
    /\ lpc' = "dns"
    /\ lruns' = lruns + 1
    /\ whoisPending' = {}
    /\ whoisCalls' = {}
    /\ whoisAnswer' = NoAnswers
    /\ resolvable' = NoDict
    /\ registered' = NoDict
    /\ UNCHANGED lfile
    /\ UNCHANGED notL

\* lines 115-120: one resolve future completes, with either answer
DnsDone ==
    /\ lpc = "dns"
    /\ \E d \in dnsPending, ok \in BOOLEAN :
        /\ dnsPending' = dnsPending \ {d}
        /\ resolvable' = Put(resolvable, d, ok)
    /\ UNCHANGED <<lfile, lpc, batch, cache, whoisPending, registered, dnsCalls, whoisCalls,
                   whoisAnswer, lruns>>
    /\ UNCHANGED notL

\* whois_targets without the test of `resolvable`: every todo domain is looked up
whois_targets_All(todo, rv) == Range(todo)

\* line 121: whois_targets = [d for d in todo if not resolvable.get(d, False)]
whois_targets(todo, rv) ==
    { d \in Range(todo) : ~(IF d \in DOMAIN rv THEN rv[d] ELSE FALSE) }

\* lines 121-126: WHOIS is submitted for the todo domains that did not resolve
WhoisSubmit ==
    /\ lpc = "dns"
    /\ dnsPending = {}
    /\ whoisPending' = whois_targets(Todo(batch, cache), resolvable)
    /\ whoisCalls' = whois_targets(Todo(batch, cache), resolvable)
    /\ lpc' = "whois"
    /\ UNCHANGED <<lfile, batch, cache, dnsPending, resolvable, registered, dnsCalls,
                   whoisAnswer, lruns>>
    /\ UNCHANGED notL

\* lines 127-133: one whois_task future completes, whatever whois.whois did
WhoisDone ==
    /\ lpc = "whois"
    /\ \E d \in whoisPending, ans \in WhoisAnswers :
        /\ whoisPending' = whoisPending \ {d}
        /\ whoisAnswer' = Put(whoisAnswer, d, ans)
        /\ registered' = Put(registered, d, whois_registered(ans))
    /\ UNCHANGED <<lfile, lpc, batch, cache, dnsPending, resolvable, dnsCalls, whoisCalls, lruns>>
    /\ UNCHANGED notL

\* lines 134-150: the rows, the temporary file, the rename
WriteLiveness ==
    /\ lpc = "whois"
    /\ whoisPending = {}
    /\ lfile' = FileOf(<<LIVENESS_HEADER>> \o LivenessRows(batch, cache, resolvable, registered))
    /\ lpc' = "done"
    /\ UNCHANGED <<batch, cache, dnsPending, whoisPending, resolvable, registered,
                   dnsCalls, whoisCalls, whoisAnswer, lruns>>
    /\ UNCHANGED notL

\* process_file returns; the next run starts from the file alone
ReturnFile ==
    /\ lpc = "done"
    /\ lpc' = "idle"
    /\ whoisAnswer' = NoAnswers
    /\ UNCHANGED <<lfile, batch, cache, dnsPending, whoisPending, resolvable, registered,
                   dnsCalls, whoisCalls, lruns>>
    /\ UNCHANGED notL

\* the rows of the liveness file written for domain d
LiveRowsFor(d) == { i \in 2..Len(lfile.lines) : lfile.lines[i][1] = d }

\* C7: a domain in the liveness cache read at the start of a run is never
\* passed to the DNS resolver or to WHOIS in that run, and the row written for
\* it carries exactly the cached flags.
C7_CachedNeverProbed ==
    /\ (DOMAIN cache) \cap (dnsCalls \cup whoisCalls) = {}
    /\ lpc = "done" =>
        \A d \in (DOMAIN cache) \cap Range(batch) :
            /\ (cache[d][1] \/ cache[d][2]) => LiveRowsFor(d) # {}
            /\ \A i \in LiveRowsFor(d) :
                lfile.lines[i] = <<d, FormatFlag(cache[d][1]), FormatFlag(cache[d][2])>>

\* a run that finds one domain of its batch cached and probes another
C7_Witness ==
    /\ lpc = "done"
    /\ \E d \in (DOMAIN cache) \cap Range(batch) : LiveRowsFor(d) # {}
    /\ dnsCalls # {}
    /\ whoisCalls # {}

\* C8: every entry in the cache file before a run is in the cache file after
\* the run, with the same flags.
C8_CacheAppendOnly ==
    lpc = "done" =>
        \A d \in DOMAIN cache :
            /\ d \in DOMAIN read_existing(lfile)
            /\ read_existing(lfile)[d] = cache[d]

\* lines 135-139: the flags process_file has for a domain of the batch
RunFlags(d) ==
    IF d \in DOMAIN cache THEN cache[d]
    ELSE << IF d \in DOMAIN resolvable THEN resolvable[d] ELSE FALSE,
            IF d \in DOMAIN registered THEN registered[d] ELSE FALSE >>

\* C17: a domain of the batch that is neither resolvable nor registered, by a
\* fresh probe or by its cache entry, has no row in the liveness file written,
\* and every row written has resolvable or registered true.
C17_DeadDomainsDropped ==
    lpc = "done" =>
        /\ \A d \in Range(batch) :
            (~RunFlags(d)[1] /\ ~RunFlags(d)[2]) => LiveRowsFor(d) = {}
        /\ \A i \in 2..Len(lfile.lines) :
            ParseFlag(lfile.lines[i][2]) \/ ParseFlag(lfile.lines[i][3])

\* a run that writes a row, drops a domain it probed with both answers
\* negative, and drops a domain its cache records as neither
C17_Witness ==
    /\ lpc = "done"
    /\ Len(lfile.lines) > 1
    /\ \E d \in Range(batch) \cap dnsCalls \cap whoisCalls : LiveRowsFor(d) = {}
    /\ \E d \in Range(batch) \cap DOMAIN cache :
        ~cache[d][1] /\ ~cache[d][2] /\ LiveRowsFor(d) = {}

\* the WHOIS fields the registration rule names
ListedFields ==
    {"registrar", "creation_date", "updated_date", "expiration_date", "name_servers"}

\* C18: a freshly probed domain is marked registered exactly when its address
\* resolution failed and its WHOIS answer has a non-empty field among
\* registrar, creation date, update date, expiration date and name servers;
\* WHOIS is queried only for domains whose resolution failed.
C18_RegisteredIffListedField ==
    /\ \A d \in whoisCalls : d \in DOMAIN resolvable /\ ~resolvable[d]
    /\ lpc = "done" =>
        \A d \in Range(Todo(batch, cache)) :
            RunFlags(d)[2] <=>
                /\ ~resolvable[d]
                /\ d \in DOMAIN whoisAnswer
                /\ whoisAnswer[d].kind = "entry"
                /\ whoisAnswer[d].present \cap ListedFields # {}

\* csv.DictReader: row.get(col, ""), the first line being the field names
DictCell(f, n, col) ==
    LET hits == { j \in 1..Len(f.lines[1]) : f.lines[1][j] = col /\ j <= Len(f.lines[n]) }
    IN IF hits = {} THEN ""
       ELSE f.lines[n][CHOOSE j \in hits : \A k \in hits : k <= j]

\* content_extractor.read_domains, lines 21-31: the domains of the rows in
\* which resolvable and registered are both true
ContentDomains(f) ==
    IF ~f.exists \/ f.lines = <<>> THEN <<>>
    ELSE LET picked(n) ==
                /\ Lower(DictCell(f, n, "domain")) # ""
                /\ ParseFlag(Lower(DictCell(f, n, "resolvable")))
                /\ ParseFlag(Lower(DictCell(f, n, "registered")))
             ns == SelectSeq([i \in 1..(Len(f.lines) - 1) |-> i + 1], picked)
         IN [i \in 1..Len(ns) |-> Lower(DictCell(f, ns[i], "domain"))]

\* C30: every row process_file writes for a freshly probed domain has exactly
\* one of resolvable and registered true; a liveness file built from an empty
\* cache holds no row with both flags true, the only rows the content
\* extractor's read_domains selects.
C30_FreshRowsOneFlag ==
    /\ ContentDomains(lfile) = <<>>
    /\ lpc = "done" =>
        \A d \in Range(Todo(batch, cache)) : \A i \in LiveRowsFor(d) :
            ParseFlag(lfile.lines[i][2]) # ParseFlag(lfile.lines[i][3])

\* a run that wrote a row for a domain it found resolvable and a row for a
\* domain it found registered, both freshly probed
C30_Witness ==
    /\ lpc = "done"
    /\ \E d \in Range(Todo(batch, cache)) : \E i \in LiveRowsFor(d) :
            lfile.lines[i] = <<d, "true", "false">>
    /\ \E d \in Range(Todo(batch, cache)) : \E i \in LiveRowsFor(d) :
            lfile.lines[i] = <<d, "false", "true">>

(***************************************************************************)
(* The writer tasks of one run of main and the files they replace.         *)
(***************************************************************************)
Seeds == {"a.com", "b.com"}
Programs == {"url_extractor", "life_check"}

\* url_extractor line 556: os.path.join(out_dir, f"{domain}.csv");
\* life_check line 205: os.path.join(out_dir, name), name a *.csv entry of sus/
OutPath(pr, k) ==
    IF pr = "url_extractor" THEN "sus/" \o k \o ".csv" ELSE "sus1/" \o k

\* url_extractor line 452, life_check line 143
TmpPath(path) == path \o ".tmp"

\* open(path, "w") in place of open(tmp, "w"): the lines go to the final path
WriteTarget_InPlace(path) == path

\* the path open(..., "w") is called on
WriteTarget(path) == TmpPath(path)

\* url_extractor lines 59-86 and 592: the keys of kw_map, one per distinct
\* whitelist domain; life_check line 179: the *.csv names os.listdir returns
TaskKeys(pr, listing) ==
    IF pr = "url_extractor" THEN Dedupe(listing, <<>>)
    ELSE LET csv(n) == EndsWith(n, ".csv") IN SelectSeq(listing, csv)

\* what a run can find: whitelist rows (a domain may repeat), or directory
\* entries (no name twice; a leftover temporary file may be among them)
Listings(pr) ==
    IF pr = "url_extractor" THEN SeqsUpTo(Seeds, MaxTasks) \ {<<>>}
    ELSE { l \in SeqsUpTo({ s \o ".csv" : s \in Seeds } \cup {"a.com.csv.tmp"}, MaxTasks) :
            IsDupFree(l) /\ l # <<>> }

WPaths ==
    UNION { { OutPath(pr, k), TmpPath(OutPath(pr, k)) } :
            pr \in Programs, k \in Seeds \cup { s \o ".csv" : s \in Seeds } }

\* the complete files a task can write: a header and up to MaxLines records
CompleteFiles == { <<<<"domain">>>> \o rows : rows \in SeqsUpTo({<<"x.com">>}, MaxLines) }

Tasks == 1..Len(keys)
PathOf(i) == OutPath(prog, keys[i])

IdleW ==
    /\ prog = "url_extractor"
    /\ keys = <<>>
    /\ fs = [p \in WPaths |-> Absent]
    /\ tpc = <<>>
    /\ tnew = <<>>
    /\ told = <<>>
    /\ twritten = <<>>
    /\ wrun = 0

InitW ==
    /\ prog \in Programs
    /\ \E l \in Listings(prog) : keys = TaskKeys(prog, l)
    /\ fs = [p \in WPaths |-> Absent]
    /\ tpc = [i \in 1..Len(keys) |-> "wait"]
    /\ tnew = [i \in 1..Len(keys) |-> <<>>]
    /\ told = [i \in 1..Len(keys) |-> Absent]
    /\ twritten = [i \in 1..Len(keys) |-> 0]
    /\ wrun = 1

\* write_csv line 453 / process_file line 144: open(tmp, "w") creates or truncates
TaskOpen ==
    /\ UNCHANGED notW
    /\ \E i \in Tasks, c \in CompleteFiles :
            /\ tpc[i] = "wait"
            /\ tpc' = [tpc EXCEPT ![i] = "writing"]
            /\ tnew' = [tnew EXCEPT ![i] = c]
            /\ told' = [told EXCEPT ![i] = fs[PathOf(i)]]
            /\ twritten' = [twritten EXCEPT ![i] = 0]
            /\ fs' = [fs EXCEPT ![WriteTarget(PathOf(i))] = FileOf(<<>>)]
            /\ UNCHANGED <<prog, keys, wrun>>

\* write_csv lines 455-457 / process_file lines 146-148: one writerow
TaskWriteLine ==
    /\ UNCHANGED notW
    /\ \E i \in Tasks :
            /\ tpc[i] = "writing"
            /\ twritten[i] < Len(tnew[i])
            /\ twritten' = [twritten EXCEPT ![i] = @ + 1]
            /\ fs' = [fs EXCEPT ![WriteTarget(PathOf(i))] =
                        IF @.exists THEN FileOf(Append(@.lines, tnew[i][twritten[i] + 1])) ELSE @]
            /\ UNCHANGED <<prog, keys, tpc, tnew, told, wrun>>

\* write_csv line 458 / process_file line 149: os.replace(tmp, path)
TaskReplace ==
    /\ UNCHANGED notW
    /\ \E i \in Tasks :
            /\ tpc[i] = "writing"
            /\ twritten[i] = Len(tnew[i])
            /\ fs[TmpPath(PathOf(i))].exists \/ WriteTarget(PathOf(i)) = PathOf(i)
            /\ fs' = IF WriteTarget(PathOf(i)) = PathOf(i) THEN fs
                     ELSE [fs EXCEPT ![PathOf(i)] = fs[TmpPath(PathOf(i))],
                                     ![TmpPath(PathOf(i))] = Absent]
            /\ tpc' = [tpc EXCEPT ![i] = "done"]
            /\ UNCHANGED <<prog, keys, tnew, told, twritten, wrun>>

\* main is run again over the same seeds
NextRun ==
    /\ keys # <<>>
    /\ \A i \in Tasks : tpc[i] = "done"
    /\ wrun < MaxWriteRuns
    /\ wrun' = wrun + 1
    /\ tpc' = [i \in Tasks |-> "wait"]
    /\ UNCHANGED <<prog, keys, fs, tnew, told, twritten>>
    /\ UNCHANGED notW

\* C5: at every step the file at a task's final path is absent, the complete
\* previous version or the complete new version, and no two running tasks of
\* the run write the same final path or the same temporary file.
C5_AtomicReplace ==
    /\ \A i \in Tasks :
        /\ fs[PathOf(i)].exists => fs[PathOf(i)].lines \in CompleteFiles
        /\ tpc[i] # "wait" => fs[PathOf(i)] \in {told[i], FileOf(tnew[i])}
    /\ \A i, j \in Tasks :
        (i # j /\ tpc[i] = "writing" /\ tpc[j] = "writing")
            => /\ PathOf(i) # PathOf(j)
               /\ TmpPath(PathOf(i)) # TmpPath(PathOf(j))
               /\ TmpPath(PathOf(i)) # PathOf(j)

\* two tasks are writing, one of them half way through its temporary file
\* while its final path still holds the complete previous version
C5_Witness ==
    \E i, j \in Tasks :
        /\ i # j
        /\ tpc[i] = "writing" /\ tpc[j] = "writing"
        /\ twritten[i] > 0 /\ twritten[i] < Len(tnew[i])
        /\ fs[PathOf(i)].exists
        /\ fs[PathOf(i)] # FileOf(tnew[i])

(***************************************************************************)
(* The external calls of a run of url_extractor and of a run of            *)
(* life_check: which of them the code bounds with a timeout.               *)
(***************************************************************************)
\* url_extractor line 124: subprocess.run(cmd, capture_output=True, text=True)
\* url_extractor lines 234, 467: requests.get(..., timeout=20)
\* url_extractor line 211: resolver.lifetime = timeout
\* life_check line 79: socket.getaddrinfo(dn, None, ...), `timeout` unused
\* life_check line 88: whois.whois(dn), `timeout` unused
HasTimeout(kind) ==
    IF kind = "engine" THEN FALSE
    ELSE IF kind = "ct" THEN TRUE
    ELSE IF kind = "cname" THEN TRUE
    ELSE IF kind = "dns" THEN FALSE
    ELSE FALSE

\* the calls of a stage: one engine subprocess, MaxPool calls in each pool
CallsOf(stage) ==
    IF stage = "done" THEN {}
    ELSE IF stage = "engine" THEN {<<"engine", 1>>}
    ELSE { <<stage, n>> : n \in 1..MaxPool }

CallIds == UNION { CallsOf(st) : st \in {"engine", "ct", "cname", "dns", "whois"} }

\* process_domain: the engine, then the CT queries, then the CNAME resolutions;
\* process_file: the DNS pool, then the WHOIS pool
StageAfter(stage) ==
    IF stage = "engine" THEN "ct"
    ELSE IF stage = "ct" THEN "cname"
    ELSE IF stage = "dns" THEN "whois"
    ELSE "done"

IdleC ==
    /\ xstage = "done"
    /\ lstage = "done"
    /\ cstate = [c \in CallIds |-> "unissued"]

InitC ==
    /\ xstage = "engine"
    /\ lstage = "dns"
    /\ cstate = [c \in CallIds |-> "unissued"]

Returned(c) == cstate[c] \in {"answered", "timedout"}

\* the calls of the current stage are submitted
IssueX ==
    /\ \A c \in CallsOf(xstage) : cstate[c] = "unissued"
    /\ xstage # "done"
    /\ cstate' = [c \in CallIds |-> IF c \in CallsOf(xstage) THEN "waiting" ELSE cstate[c]]
    /\ UNCHANGED <<xstage, lstage>>
    /\ UNCHANGED notC

IssueL ==
    /\ \A c \in CallsOf(lstage) : cstate[c] = "unissued"
    /\ lstage # "done"
    /\ cstate' = [c \in CallIds |-> IF c \in CallsOf(lstage) THEN "waiting" ELSE cstate[c]]
    /\ UNCHANGED <<xstage, lstage>>
    /\ UNCHANGED notC

\* the engine, the server or the resolver answers a call
Answer(c) ==
    /\ cstate[c] = "waiting"
    /\ cstate' = [cstate EXCEPT ![c] = "answered"]
    /\ UNCHANGED <<xstage, lstage>>

\* the timeout of a call expires: it returns an empty result
Expire(c) ==
    /\ cstate[c] = "waiting"
    /\ HasTimeout(c[1])
    /\ cstate' = [cstate EXCEPT ![c] = "timedout"]
    /\ UNCHANGED <<xstage, lstage>>

\* every call of the stage has returned: the run goes on
AdvanceX ==
    /\ xstage # "done"
    /\ \A c \in CallsOf(xstage) : Returned(c)
    /\ xstage' = StageAfter(xstage)
    /\ UNCHANGED <<lstage, cstate>>
    /\ UNCHANGED notC

AdvanceL ==
    /\ lstage # "done"
    /\ \A c \in CallsOf(lstage) : Returned(c)
    /\ lstage' = StageAfter(lstage)
    /\ UNCHANGED <<xstage, cstate>>
    /\ UNCHANGED notC

Answers ==
    /\ \E c \in CallIds : Answer(c)
    /\ UNCHANGED notC

Expires ==
    /\ \E c \in CallIds : Expire(c)
    /\ UNCHANGED notC

(***************************************************************************)
(* main: the outer pool, the as_completed loop, the status thread.         *)
(***************************************************************************)
IdleR ==
    /\ rprog = "url_extractor"
    /\ rtotal = 0
    /\ rworkers = 0
    /\ rfut = <<>>
    /\ rseen = {}
    /\ rdone = 0
    /\ rlines = <<>>
    /\ rstop = FALSE
    /\ rth = "none"
    /\ rframe = 0
    /\ rfinal = FALSE
    /\ rinput = FALSE
    /\ routdir = FALSE
    /\ rexit = "none"
    /\ rpc = "off"

\* url_extractor line 600: workers = min(total, env or cpu);
\* life_check lines 189-198: file_workers >= 1, at most total unless set
PoolSizes(pr, total) ==
    IF pr = "url_extractor" THEN { w \in 0..total : w = total \/ w >= 1 }
    ELSE 1..(IF total = 0 THEN 1 ELSE total)

\* a run of main before its first line: the required input is there or not,
\* with any number of seeds (files), none included; no output directory yet
InitR ==
    /\ rprog \in Programs
    /\ rinput \in BOOLEAN
    /\ rtotal \in 0..(IF rinput THEN MaxSeeds ELSE 0)
    /\ routdir = FALSE
    /\ rexit = "none"
    /\ rworkers \in PoolSizes(rprog, rtotal)
    /\ rfut = <<>>
    /\ rseen = {}
    /\ rdone = 0
    /\ rlines = <<>>
    /\ rstop = FALSE
    /\ rth = "none"
    /\ rframe = 0
    /\ rfinal = FALSE
    /\ rpc = "check"

\* os.makedirs called ahead of the test of the input
ReachesMakedirs_Early(present) == TRUE

\* url_extractor lines 587-590, life_check lines 156-158: os.makedirs is
\* reached only past the test of the input
ReachesMakedirs(present) == present

\* url_extractor lines 581-590, life_check lines 153-158: sys.exit(1) when the
\* input is missing, else the output directory is made
CheckInput ==
    /\ rpc = "check"
    /\ routdir' = ReachesMakedirs(rinput)
    /\ IF rinput
       THEN rpc' = "start" /\ UNCHANGED rexit
       ELSE rpc' = "exited" /\ rexit' = "1"
    /\ UNCHANGED <<rprog, rtotal, rworkers, rfut, rseen, rdone, rlines, rstop, rth, rframe,
                   rfinal, rinput>>
    /\ UNCHANGED notR

Futures == 1..Len(rfut)
Running == { i \in Futures : rfut[i] = "running" }

\* url_extractor lines 636-654: ThreadPoolExecutor(max_workers=workers) raises
\* ValueError for workers = 0; else every seed is submitted and the status
\* thread started.  life_check lines 180-182 and 199-206: return when there is
\* no file; else every file is submitted
MainStart ==
    /\ rpc = "start"
    /\ IF rprog = "life_check" /\ rtotal = 0
       THEN rpc' = "returned" /\ UNCHANGED <<rfut, rth>>
       ELSE IF rworkers = 0
       THEN rpc' = "crashed" /\ UNCHANGED <<rfut, rth>>
       ELSE /\ rpc' = "loop"
            /\ rfut' = [i \in 1..rtotal |-> "queued"]
            /\ rth' = IF rprog = "url_extractor" THEN "running" ELSE "none"
    /\ UNCHANGED <<rprog, rtotal, rworkers, rseen, rdone, rlines, rstop, rframe, rfinal>>
    /\ UNCHANGED <<rinput, routdir, rexit>>
    /\ UNCHANGED notR

\* a worker of the pool takes a queued task
TaskStart ==
    /\ \E i \in Futures :
        /\ rfut[i] = "queued"
        /\ Cardinality(Running) < rworkers
        /\ rfut' = [rfut EXCEPT ![i] = "running"]
    /\ UNCHANGED <<rprog, rtotal, rworkers, rseen, rdone, rlines, rstop, rth, rframe, rfinal, rpc>>
    /\ UNCHANGED <<rinput, routdir, rexit>>
    /\ UNCHANGED notR

\* process_domain (process_file) returns its tuple: the dataset is persisted
TaskReturn ==
    /\ \E i \in Futures :
        /\ rfut[i] = "running"
        /\ rfut' = [rfut EXCEPT ![i] = "returned"]
    /\ UNCHANGED <<rprog, rtotal, rworkers, rseen, rdone, rlines, rstop, rth, rframe, rfinal, rpc>>
    /\ UNCHANGED <<rinput, routdir, rexit>>
    /\ UNCHANGED notR

\* process_domain (process_file) raises: the future holds the exception
TaskRaise ==
    /\ \E i \in Futures :
        /\ rfut[i] = "running"
        /\ rfut' = [rfut EXCEPT ![i] = "raised"]
    /\ UNCHANGED <<rprog, rtotal, rworkers, rseen, rdone, rlines, rstop, rth, rframe, rfinal, rpc>>
    /\ UNCHANGED <<rinput, routdir, rexit>>
    /\ UNCHANGED notR

\* url_extractor lines 656-664, life_check lines 209-216: as_completed yields a
\* finished future; f.result() raising is caught; the counter, the line
Consume ==
    /\ rpc = "loop"
    /\ \E i \in Futures \ rseen :
        /\ rfut[i] \in {"returned", "raised"}
        /\ rseen' = rseen \cup {i}
        /\ rdone' = rdone + 1
        /\ rlines' = Append(rlines, [n |-> rdone + 1,
                                     domain |-> IF rfut[i] = "raised" THEN "unknown" ELSE i])
    /\ UNCHANGED <<rprog, rtotal, rworkers, rfut, rstop, rth, rframe, rfinal, rpc>>
    /\ UNCHANGED <<rinput, routdir, rexit>>
    /\ UNCHANGED notR

\* as_completed is exhausted.  url_extractor line 665: stop.set();
\* life_check lines 217-218: the pool is left and the final line printed
LoopEnd ==
    /\ rpc = "loop"
    /\ rseen = Futures
    /\ IF rprog = "url_extractor"
       THEN rstop' = TRUE /\ rpc' = "join" /\ UNCHANGED rfinal
       ELSE rpc' = "end" /\ rfinal' = TRUE /\ UNCHANGED rstop
    /\ UNCHANGED <<rprog, rtotal, rworkers, rfut, rseen, rdone, rlines, rth, rframe>>
    /\ UNCHANGED <<rinput, routdir, rexit>>
    /\ UNCHANGED notR

\* url_extractor lines 644-652: one round of the status loop
StatusTick ==
    /\ rth = "running"
    /\ ~rstop
    /\ rframe' = (rframe + 1) % 4
    /\ UNCHANGED <<rprog, rtotal, rworkers, rfut, rseen, rdone, rlines, rstop, rth, rfinal, rpc>>
    /\ UNCHANGED <<rinput, routdir, rexit>>
    /\ UNCHANGED notR

\* url_extractor line 644: stop.is_set() ends the status loop
StatusStop ==
    /\ rth = "running"
    /\ rstop
    /\ rth' = "ended"
    /\ UNCHANGED <<rprog, rtotal, rworkers, rfut, rseen, rdone, rlines, rstop, rframe, rfinal, rpc>>
    /\ UNCHANGED <<rinput, routdir, rexit>>
    /\ UNCHANGED notR

\* url_extractor lines 666-668: th.join(), the pool is left, the final line
JoinStatus ==
    /\ rpc = "join"
    /\ rth = "ended"
    /\ rpc' = "end"
    /\ rfinal' = TRUE
    /\ UNCHANGED <<rprog, rtotal, rworkers, rfut, rseen, rdone, rlines, rstop, rth, rframe>>
    /\ UNCHANGED <<rinput, routdir, rexit>>
    /\ UNCHANGED notR

\* C12: an exception in one seed's task keeps no other task from completing
\* and persisting; in every run there is one summary line per seed, the done
\* counter reaches the seed count, the status thread stops and the final
\* "done" line is printed.
C12_EveryRunCompletes ==
    rpc \in {"end", "crashed", "returned"} =>
        /\ rfinal
        /\ rdone = rtotal
        /\ Len(rlines) = rtotal
        /\ \A n \in 1..rtotal : \E k \in 1..Len(rlines) : rlines[k].n = n
        /\ rth # "running"
        /\ \A i \in 1..rtotal : i \in Futures /\ rfut[i] \in {"returned", "raised"}

\* C28: for every seed count, zero included, and every configured worker
\* value, the outer pool of url_extractor is made with a worker count of at
\* least 1 and at most max(1, seed count), one task is submitted per seed, and
\* no more seed tasks run at once than the worker count.
C28_PoolWithinBounds ==
    (rprog = "url_extractor" /\ rpc \notin {"off", "check", "start", "exited"}) =>
        /\ rpc # "crashed"
        /\ rworkers >= 1
        /\ rworkers <= (IF rtotal >= 1 THEN rtotal ELSE 1)
        /\ Len(rfut) = rtotal
        /\ Cardinality(Running) <= rworkers

\* C24: when the required input is missing (the whitelist spreadsheet, the
\* input directory), main exits with a non-zero status before it makes the
\* output directory, submits a task or starts a thread; it never goes on.
C24_MissingInputAbortsFirst ==
    /\ ~rinput => rpc \in {"off", "check", "exited"}
    /\ rpc = "exited" =>
        /\ rexit = "1"
        /\ ~routdir
        /\ rfut = <<>>
        /\ rth = "none"
        /\ rlines = <<>>
        /\ ~rfinal

\* a run that found its input missing and has exited
C24_Witness == rpc = "exited" /\ ~rinput /\ rexit = "1"

(***************************************************************************)
(* The dictionary of a seed: read_keywords_map and lines 606-621 of main.  *)
(***************************************************************************)
\* the characters re.sub(r"[^a-z0-9 ]+", " ", org) keeps
KeptChars ==
    {"a", "b", "c", "d", "e", "f", "g", "h", "i", "j", "k", "l", "m", "n", "o", "p", "q",
     "r", "s", "t", "u", "v", "w", "x", "y", "z", "0", "1", "2", "3", "4", "5", "6", "7",
     "8", "9", " "}

\* line 75: every other character becomes a blank
RECURSIVE Clean(_, _, _)
Clean(str, i, acc) ==
    IF i > Len(str) THEN acc
    ELSE Clean(str, i + 1,
               acc \o (IF SubSeq(str, i, i) \in KeptChars THEN SubSeq(str, i, i) ELSE " "))

\* str.split(sep)
RECURSIVE Split(_, _, _, _, _)
Split(str, sep, i, cur, out) ==
    IF i > Len(str) THEN Append(out, cur)
    ELSE IF SubSeq(str, i, i) = sep THEN Split(str, sep, i + 1, "", Append(out, cur))
    ELSE Split(str, sep, i + 1, cur \o SubSeq(str, i, i), out)

\* "".join(words)
RECURSIVE Concat(_)
Concat(ws) == IF ws = <<>> THEN "" ELSE Head(ws) \o Concat(Tail(ws))

\* line 76: clean.split() drops the empty pieces; words of length >= 3 are kept
OrgWords(org) ==
    LET long(w) == Len(w) >= 3
    IN SelectSeq(Split(Clean(org, 1, ""), " ", 1, "", <<>>), long)

\* lines 71-72: the label before the last one
Sld(dom) ==
    LET parts == Split(dom, ".", 1, "", <<>>)
    IN IF Len(parts) >= 2 THEN parts[Len(parts) - 1] ELSE parts[1]

\* lines 80-85: first occurrences, the empty string dropped
Uniq(ks) ==
    LET full(k) == k # ""
    IN Dedupe(SelectSeq(ks, full), <<>>)

\* lines 70-86: kw_map[dom] (the cells of the model are stripped and lowercase)
RowKeywords(dom, org) ==
    LET words == IF org # "" THEN OrgWords(org) ELSE <<>>
    IN Uniq(<<Sld(dom)>> \o (IF words # <<>> THEN <<Concat(words)>> \o words ELSE <<>>))

\* line 609: base_extra
base_extra ==
    <<"login", "secure", "verify", "update", "support", "helpdesk", "banking", "kyc", "otp",
      "pay", "payment", "bill", "recharge", "claim", "policy", "ipo", "ipoapply", "apply",
      "card", "credit", "debit", "netbanking", "online", "account">>

\* lines 607-615: extra_kws, then the words of base_extra not among them
ExtraWithLexicon(extra) ==
    LET new(w) == w \notin Range(extra)
    IN extra \o SelectSeq(base_extra, new)

\* the words of the model in the order Python compares strings
Alphabetical ==
    <<"account", "acme", "acmebank", "acmebankltd", "apply", "bank", "banking", "bill",
      "card", "claim", "co", "credit", "debit", "example", "helpdesk", "ipo", "ipoapply", "kyc",
      "login", "ltd", "netbanking", "online", "otp", "pay", "payexample", "payment",
      "policy", "recharge", "secure", "support", "update", "verify", "wallet">>

\* sorted(list(s)) for a set s of words
Sorted(S) ==
    LET in(w) == w \in S
    IN SelectSeq(Alphabetical, in)

\* lines 617-621: dict_map[d] = sorted(list(set(kws) | set(extra_kws)))
DictWords(kws, extra) == Sorted(Range(kws) \cup Range(ExtraWithLexicon(extra)))

\* whitelist rows: the domain cell and the organisation cell ("" when absent)
WhitelistRows ==
    { [dom |-> "acmebank.com", org |-> "acme bank ltd."],
      [dom |-> "acmebank.com", org |-> ""],
      [dom |-> "pay.example.co", org |-> "pay-example co"],
      [dom |-> "kyc.in", org |-> "kyc"],
      [dom |-> "acme.com", org |-> "a1 acme & co"],
      [dom |-> "login.net", org |-> ""],
      [dom |-> "acmebank.co.in", org |-> ""] }

\* read_extra_keywords: the words of keywords.txt, none twice
ExtraFiles == { e \in SeqsUpTo({"wallet", "acme", "login"}, MaxExtra) : IsDupFree(e) }

IdleD ==
    /\ drow = [dom |-> "", org |-> ""]
    /\ dextra = <<>>
    /\ dkws = <<>>
    /\ ddict = <<>>
    /\ dpc = "off"

InitD ==
    /\ drow \in WhitelistRows
    /\ dextra \in ExtraFiles
    /\ dkws = <<>>
    /\ ddict = <<>>
    /\ dpc = "read"

\* line 591: kw_map = read_keywords_map(xlsx)
ReadKeywords ==
    /\ dpc = "read"
    /\ dkws' = RowKeywords(drow.dom, drow.org)
    /\ dpc' = "mapped"
    /\ UNCHANGED <<drow, dextra, ddict>>
    /\ UNCHANGED notD

\* lines 606-621: dict_map
BuildDict ==
    /\ dpc = "mapped"
    /\ ddict' = DictWords(dkws, dextra)
    /\ dpc' = "built"
    /\ UNCHANGED <<drow, dextra, dkws>>
    /\ UNCHANGED notD

\* C19: the dictionary handed to the candidate engine for a seed is the
\* duplicate-free, empty-free sequence [registrable root] + [concatenated
\* organisation words] + [organisation words of length >= 3] + [extra
\* keywords] + [built-in lexicon], in that order.
C19_DictionaryOrder ==
    dpc = "built" =>
        LET words == OrgWords(drow.org)
        IN ddict = Uniq(<<Sld(drow.dom)>> \o <<Concat(words)>> \o words
                        \o dextra \o base_extra)

\* public suffixes of more than one label
MultiLabelSuffixes == {"co.in", "co.uk"}

\* the label left of the public suffix of a domain
RegistrableRoot(dom) ==
    LET parts == Split(dom, ".", 1, "", <<>>)
        n == Len(parts)
    IN IF n >= 3 /\ (parts[n - 1] \o "." \o parts[n]) \in MultiLabelSuffixes
       THEN parts[n - 2]
       ELSE IF n >= 2 THEN parts[n - 1] ELSE parts[1]

\* C25: for every seed domain accepted from the whitelist, domains under a
\* multi-label public suffix included, the keyword list built for it is
\* non-empty and contains the seed's registrable root label.
C25_KeywordsHoldRoot ==
    dpc \in {"mapped", "built"} =>
        /\ dkws # <<>>
        /\ RegistrableRoot(drow.dom) \in Range(dkws)

(***************************************************************************)
(* get_cname_chain, step by step, on a CNAME graph.                        *)
(***************************************************************************)
ChainNames == {"a.io", "b.io", "c.io"}
HopNames == <<"h1.io", "h2.io", "h3.io", "h4.io", "h5.io", "h6.io", "h7.io">>

\* a chain of six CNAME records, longer than the loop goes
LongChain ==
    [n \in { HopNames[i] : i \in 1..6 } |->
        HopNames[(CHOOSE i \in 1..6 : HopNames[i] = n) + 1] \o "."]

\* every CNAME graph over three names, cycles included; the resolver gives a
\* target as an absolute name, with its final dot
ChainWorlds ==
    {LongChain} \cup
    UNION { [S -> { n \o "." : n \in ChainNames }] : S \in SUBSET ChainNames }

IdleG ==
    /\ gdns = NoDns
    /\ gname = ""
    /\ gfailed = FALSE
    /\ gtarget = ""
    /\ gseen = {}
    /\ gout = <<>>
    /\ ghops = 0
    /\ gasked = <<>>
    /\ gpc = "off"

InitG ==
    /\ gdns \in ChainWorlds
    /\ gname \in (IF gdns = LongChain THEN {HopNames[1]} ELSE ChainNames)
    /\ gfailed = FALSE
    /\ gtarget = ""
    /\ gseen = {}
    /\ gout = <<>>
    /\ ghops = 0
    /\ gasked = <<>>
    /\ gpc = "called"

\* lines 208-213: the resolver is made (an exception there returns []), the
\* target is the name, nothing is seen
ChainOpen ==
    /\ gpc = "called"
    /\ \E ok \in BOOLEAN :
        /\ gpc' = IF ok THEN "loop" ELSE "returned"
        /\ gfailed' = ~ok
    /\ gtarget' = gname
    /\ UNCHANGED <<gdns, gname, gseen, gout, ghops, gasked>>
    /\ UNCHANGED notG

\* lines 214-226: one iteration that resolves the target: the record is
\* followed, or the resolver raises or answers with nothing and the loop ends
ChainStep ==
    /\ gpc = "loop"
    /\ ghops < MaxHops
    /\ ~SeenBefore(gtarget, gseen)
    /\ ghops' = ghops + 1
    /\ gseen' = gseen \cup {gtarget}
    /\ gasked' = Append(gasked, gtarget)
    /\ \E answered \in BOOLEAN :
        IF answered /\ gtarget \in DOMAIN gdns
        THEN /\ gout' = Append(gout, RStripDot(gdns[gtarget]))
             /\ gtarget' = RStripDot(gdns[gtarget])
             /\ UNCHANGED <<gpc, gfailed>>
        ELSE /\ gpc' = "returned"
             /\ gfailed' = (gtarget \in DOMAIN gdns)
             /\ UNCHANGED <<gout, gtarget>>
    /\ UNCHANGED <<gdns, gname>>
    /\ UNCHANGED notG

\* lines 214-216 and 229: the range is used up or the target was seen
ChainBreak ==
    /\ gpc = "loop"
    /\ ghops = MaxHops \/ SeenBefore(gtarget, gseen)
    /\ gpc' = "returned"
    /\ UNCHANGED <<gdns, gname, gfailed, gtarget, gseen, gout, ghops, gasked>>
    /\ UNCHANGED notG

\* what get_cname_chain does at every step
ChainBounded ==
    /\ Len(gasked) <= MaxHops
    /\ IsDupFree(gasked)
    /\ Len(gout) <= MaxHops
    /\ Len(gout) <= Len(gasked)
    /\ Len(gasked) <= Len(gout) + 1
    /\ Len(gasked) > Len(gout) => gpc = "returned"
    /\ gfailed => gpc = "returned"
    /\ (gpc = "returned" /\ ~gfailed) => gout = get_cname_chain(gdns, gname)

\* C27: get_cname_chain terminates for every CNAME graph, cyclic ones
\* included: it issues at most 5 resolutions, never resolves a name twice,
\* stops at the first resolution failure and returns at most 5 names; a
\* resolver error ends it with the chain collected so far.
C27_ChainTerminates == []ChainBounded /\ <>(gpc = "returned")

\* a call that returned because the chain came back to a name already
\* resolved, after following two records or more
C27_Witness ==
    /\ gpc = "returned"
    /\ ~gfailed
    /\ gtarget \in gseen
    /\ Len(gout) >= 2
    /\ ghops < MaxHops

(***************************************************************************)
(* collect_certstream: the callback over the messages of the stream.       *)
(***************************************************************************)
\* the keywords of the seed example.com, and names a certificate can carry
StreamKeywords == <<"example">>
StreamNames == {"example.io", "EXAMPLE.IO", "my-example.net", "other.org", "example"}

\* lines 267-272: the lowercased names that hold a keyword and a dot
RECURSIVE Retained(_, _)
Retained(doms, kws) ==
    IF doms = <<>> THEN <<>>
    ELSE LET dl == Lower(Head(doms))
         IN (IF (\E k \in 1..Len(kws) : Contains(dl, kws[k])) /\ Contains(dl, ".")
             THEN <<dl>> ELSE <<>>) \o Retained(Tail(doms), kws)

\* the messages of the stream: heartbeats and certificate updates
StreamMessages ==
    { [message_type |-> t, all_domains |-> ds] :
        t \in {"heartbeat", "certificate_update"}, ds \in SeqsUpTo(StreamNames, MaxMsgDomains) }

IdleS ==
    /\ cslimit = 0
    /\ csacc = <<>>
    /\ cspc = "off"

InitS ==
    /\ cslimit \in 1..MaxLimit
    /\ csacc = <<>>
    /\ cspc = "called"

\* lines 254-259: nothing is collected when seconds <= 0; else the stream is
\* listened to
StreamOpen ==
    /\ cspc = "called"
    /\ \E seconds \in {0, 1} : cspc' = IF seconds <= 0 THEN "returned" ELSE "listening"
    /\ UNCHANGED <<cslimit, csacc>>
    /\ UNCHANGED notS

\* lines 260-274: the callback on one message before stop_time
StreamMessage ==
    /\ cspc = "listening"
    /\ \E m \in StreamMessages :
        IF m.message_type # "certificate_update"
        THEN UNCHANGED <<csacc, cspc>>
        ELSE /\ csacc' = csacc \o Retained(m.all_domains, StreamKeywords)
             /\ cspc' = IF Len(csacc \o Retained(m.all_domains, StreamKeywords)) >= cslimit
                        THEN "returned" ELSE "listening"
    /\ UNCHANGED cslimit
    /\ UNCHANGED notS

\* lines 261-262 and 275-283: a message after stop_time, or the connection
\* failing, ends the listening with what was retained
StreamEnd ==
    /\ cspc = "listening"
    /\ cspc' = "returned"
    /\ UNCHANGED <<cslimit, csacc>>
    /\ UNCHANGED notS

\* C23: for every sequence of stream messages, each carrying any number of
\* domains, the list collect_certstream returns has at most `limit` entries.
C23_RetainedAtMostLimit == cspc = "returned" => Len(csacc) <= cslimit

(***************************************************************************)
(* classify_platform without a CNAME chain, on one candidate.              *)
(***************************************************************************)
\* for every platform base: the base, a subdomain of it, a name that ends
\* with its characters without a label boundary; and names of no platform
StaticCandidates ==
    UNION { { PLATFORM_BASES[i][2], "foo." \o PLATFORM_BASES[i][2], "my" \o PLATFORM_BASES[i][2] } :
            i \in 1..Len(PLATFORM_BASES) }
    \cup {"butterfly.dev", "FOO.VERCEL.APP", D1, D2}

IdleP ==
    /\ pcand = ""
    /\ ptag = None
    /\ ppc = "off"

InitP ==
    /\ pcand \in StaticCandidates
    /\ ptag = None
    /\ ppc = "called"

\* lines 194-198 and 205: dl = domain.lower(), the loop over the table, None
ClassifyStatic ==
    /\ ppc = "called"
    /\ ptag' = classify_platform(Lower(pcand), <<>>)
    /\ ppc' = "returned"
    /\ UNCHANGED pcand
    /\ UNCHANGED notP

\* the table entries the test of line 197 accepts for a name
AcceptedBases(dl) ==
    { i \in 1..Len(PLATFORM_BASES) :
        \/ EndsWith(dl, "." \o PLATFORM_BASES[i][2])
        \/ dl = PLATFORM_BASES[i][2]
        \/ EndsWith(dl, PLATFORM_BASES[i][2]) }

\* C31: the static match returns platform P only for a candidate that equals
\* P's base domain or ends with "." followed by it; a candidate that ends with
\* the base's characters without a label boundary (butterfly.dev against
\* fly.dev) gets no tag; at most one base matches a candidate.
C31_StaticMatchOnLabelBoundary ==
    ppc = "returned" =>
        /\ ptag # None => \E i \in BaseOf(Lower(pcand)) : PLATFORM_BASES[i][1] = ptag
        /\ BaseOf(Lower(pcand)) = {} => ptag = None
        /\ Cardinality(AcceptedBases(Lower(pcand))) <= 1

(***************************************************************************)
(* The specifications.                                                     *)
(***************************************************************************)
\* process_domain, run after run, for one seed
Init == InitX /\ IdleM /\ InitL /\ IdleW /\ IdleC /\ IdleR /\ IdleD /\ IdleS /\ IdleG /\ IdleP
Next == Collect \/ Rerun \/ CnameDone \/ Persist \/ Exit
Spec == Init /\ [][Next]_vars

\* process_domain on the CT keyword results alone
NextCname == CollectCt \/ CnameDone \/ Persist \/ Exit
SpecCname == Init /\ [][NextCname]_vars

\* process_domain on any engine output
NextKeys == CollectRaw \/ CnameDone \/ Persist \/ Exit
SpecKeys == Init /\ [][NextKeys]_vars

\* merge_rows on drawn tables
InitMerge == InitX /\ InitM /\ InitL /\ IdleW /\ IdleC /\ IdleR /\ IdleD /\ IdleS /\ IdleG /\ IdleP
NextMerge == Merge \/ SelfMerge
SpecMerge == InitMerge /\ [][NextMerge]_vars

\* process_file, run after run, on one cache file
NextLife == StartFile \/ DnsDone \/ WhoisSubmit \/ WhoisDone \/ WriteLiveness \/ ReturnFile
SpecLife == Init /\ [][NextLife]_vars

\* process_file, the first run finding a liveness file it did not write
InitLifeCache == InitX /\ IdleM /\ InitLCache /\ IdleW /\ IdleC /\ IdleR /\ IdleD /\ IdleS /\ IdleG /\ IdleP
SpecLifeCache == InitLifeCache /\ [][NextLife]_vars

\* the writer tasks of main
InitWrite == InitX /\ IdleM /\ InitL /\ InitW /\ IdleC /\ IdleR /\ IdleD /\ IdleS /\ IdleG /\ IdleP
NextWrite == TaskOpen \/ TaskWriteLine \/ TaskReplace \/ NextRun
SpecWrite == InitWrite /\ [][NextWrite]_vars

\* the external calls; the program's own steps and its timers are fair, the
\* answers of the outside world are not
InitCalls == InitX /\ IdleM /\ InitL /\ IdleW /\ InitC /\ IdleR /\ IdleD /\ IdleS /\ IdleG /\ IdleP
NextCalls == IssueX \/ IssueL \/ Answers \/ Expires \/ AdvanceX \/ AdvanceL
SpecCalls ==
    /\ InitCalls
    /\ [][NextCalls]_vars
    /\ WF_vars(IssueX)
    /\ WF_vars(IssueL)
    /\ WF_vars(AdvanceX)
    /\ WF_vars(AdvanceL)
    /\ \A c \in CallIds : WF_vars(Expire(c) /\ UNCHANGED notC)

\* main: the outer pool and the progress output
InitMain == InitX /\ IdleM /\ InitL /\ IdleW /\ IdleC /\ InitR /\ IdleD /\ IdleS /\ IdleG /\ IdleP
NextMain ==
    \/ CheckInput \/ MainStart \/ TaskStart \/ TaskReturn \/ TaskRaise \/ Consume
    \/ LoopEnd \/ StatusTick \/ StatusStop \/ JoinStatus
SpecMain == InitMain /\ [][NextMain]_vars

\* the dictionary of one whitelist row
InitDict == InitX /\ IdleM /\ InitL /\ IdleW /\ IdleC /\ IdleR /\ InitD /\ IdleS /\ IdleG /\ IdleP
NextDict == ReadKeywords \/ BuildDict
SpecDict == InitDict /\ [][NextDict]_vars

\* collect_certstream on one stream
InitStream == InitX /\ IdleM /\ InitL /\ IdleW /\ IdleC /\ IdleR /\ IdleD /\ InitS /\ IdleG /\ IdleP
NextStream == StreamOpen \/ StreamMessage \/ StreamEnd
SpecStream == InitStream /\ [][NextStream]_vars

\* get_cname_chain on one graph; the loop runs on, each resolution returning
\* within the resolver's lifetime
InitChain == InitX /\ IdleM /\ InitL /\ IdleW /\ IdleC /\ IdleR /\ IdleD /\ IdleS /\ InitG /\ IdleP
NextChain == ChainOpen \/ ChainStep \/ ChainBreak
SpecChain ==
    /\ InitChain
    /\ [][NextChain]_vars
    /\ WF_vars(NextChain)

\* classify_platform on one candidate
InitStatic == InitX /\ IdleM /\ InitL /\ IdleW /\ IdleC /\ IdleR /\ IdleD /\ IdleS /\ IdleG /\ InitP
NextStatic == ClassifyStatic
SpecStatic == InitStatic /\ [][NextStatic]_vars

\* C9: every external call carries its own timeout, so a call that is never
\* answered ends with an empty result and every run terminates.
C9_EveryRunTerminates == <>(xstage = "done") /\ <>(lstage = "done")

=============================================================================
